---- MODULE Spec2Model ----
(***************************************************************************)
(* Model of src/components/CurriculumSelector.tsx: the answer matcher      *)
(* isAnswerMatch, the Quiz component (answering, checking, grading,        *)
(* finalization, audio playback) and the CurriculumSelector component.     *)
(*                                                                         *)
(* Strings are sequences of one-character strings.  The ten circled        *)
(* numerals of circledNumbers are the characters "c1" .. "c10".  A         *)
(* nullable string holds Null, a one-element sequence whose element is no  *)
(* character, so that it differs from every string.                        *)
(***************************************************************************)
EXTENDS Integers, Sequences, FiniteSets, TLC

\* ------------------------------------------------------------------ bounds
\* Longest canonical answer drawn for a call of isAnswerMatch.
MaxLen == 3
\* Longest quiz (number of questions) drawn for a session.
MaxQuestions == 2
\* Most calls of generateSpeech (play requests) in one session.
MaxPlays == 2
\* Most calls of onStartStudy recorded for one selector.
MaxStarts == 2

\* ----------------------------------------------------------------- strings
Null == <<"null">>

\* The characters \s of the regular expression in normalize.
Whitespace == {" "}

\* String.prototype.toLowerCase, one character at a time.
toLowerCase(c) ==
  CASE c = "A" -> "a"
    [] c = "B" -> "b"
    [] c = "O" -> "o"
    [] c = "X" -> "x"
    [] OTHER -> c

\* str.replace(/\s+/g, '')
RECURSIVE StripWhitespace(_)
StripWhitespace(str) ==
  IF str = <<>> THEN <<>>
  ELSE IF Head(str) \in Whitespace THEN StripWhitespace(Tail(str))
  ELSE <<Head(str)>> \o StripWhitespace(Tail(str))

\* str.replace(/[.,]$/, '')
StripTrailingPunct(str) ==
  IF str # <<>> /\ str[Len(str)] \in {".", ","}
  THEN SubSeq(str, 1, Len(str) - 1)
  ELSE str

\* .toLowerCase() of a whole string
LowerCase(str) == [i \in 1..Len(str) |-> toLowerCase(str[i])]

\* A normalization that strips the punctuation before the whitespace (not the code).
normalizePunctFirst(str) == LowerCase(StripWhitespace(StripTrailingPunct(str)))

\* const normalize = (str) => str.replace(/\s+/g, '').replace(/[.,]$/, '').toLowerCase()
normalize(str) == LowerCase(StripTrailingPunct(StripWhitespace(str)))

\* s.startsWith(p)
startsWith(s, p) == Len(p) <= Len(s) /\ SubSeq(s, 1, Len(p)) = p

\* s.includes(c) for a one-character string c
includes(s, c) == \E i \in 1..Len(s) : s[i] = c

Digit(d) == <<"0", "1", "2", "3", "4", "5", "6", "7", "8", "9">>[d + 1]

\* (n).toString() for n >= 0
RECURSIVE toString(_)
toString(n) ==
  IF n < 10 THEN <<Digit(n)>> ELSE toString(n \div 10) \o <<Digit(n % 10)>>

circledNumbers == <<"c1", "c2", "c3", "c4", "c5", "c6", "c7", "c8", "c9", "c10">>

\* A glyph lookup that wraps around the table (not what the code does).
circledNumberWrapped(optionIndex) == <<circledNumbers[(optionIndex % 10) + 1]>>

\* const circledNumber = circledNumbers[optionIndex]: undefined outside 0..9,
\* written <<>> (the code only tests it for truthiness).
circledNumber(optionIndex) ==
  IF optionIndex >= 0 /\ optionIndex < Len(circledNumbers)
  THEN <<circledNumbers[optionIndex + 1]>>
  ELSE <<>>

\* allOptions.some(opt => normalize(opt) === normAnswer)
strictContentMatchExists(normAnswer, allOptions) ==
  \E j \in 1..Len(allOptions) : normalize(allOptions[j]) = normAnswer

\* A positional fallback that uses the 0-based index (not what the code does).
IndexMatchZeroBased(normAnswer, optionIndex) ==
  LET indexStr == IF optionIndex < 0 THEN <<"-", "1">> ELSE toString(optionIndex)
      glyph == circledNumber(optionIndex)
  IN  \/ normAnswer = indexStr
      \/ glyph # <<>> /\ normAnswer = glyph
      \/ startsWith(normAnswer, indexStr \o <<".">>)
      \/ startsWith(normAnswer, indexStr \o <<")">>)
      \/ startsWith(normAnswer, <<"(">> \o indexStr \o <<")">>)
      \/ glyph # <<>> /\ includes(normAnswer, glyph[1])

\* The positional fallback of isAnswerMatch (index string, prefixes, glyph).
IndexMatch(normAnswer, optionIndex) ==
  LET indexStr == toString(optionIndex + 1)
      glyph == circledNumber(optionIndex)
  IN  \/ normAnswer = indexStr
      \/ glyph # <<>> /\ normAnswer = glyph
      \/ startsWith(normAnswer, indexStr \o <<".">>)
      \/ startsWith(normAnswer, indexStr \o <<")">>)
      \/ startsWith(normAnswer, <<"(">> \o indexStr \o <<")">>)
      \/ glyph # <<>> /\ includes(normAnswer, glyph[1])

\* A matcher that tests the option list before the candidate (not the code).
isAnswerMatchStrictFirst(option, answer, optionIndex, allOptions) ==
  IF option = Null \/ option = <<>> THEN FALSE
  ELSE IF strictContentMatchExists(normalize(answer), allOptions) THEN FALSE
  ELSE IF normalize(option) = normalize(answer) THEN TRUE
  ELSE IndexMatch(normalize(answer), optionIndex)

\* A matcher without the content-match suppression (not the code).
isAnswerMatchNoStrict(option, answer, optionIndex, allOptions) ==
  IF option = Null \/ option = <<>> THEN FALSE
  ELSE IF normalize(option) = normalize(answer) THEN TRUE
  ELSE IndexMatch(normalize(answer), optionIndex)

\* isAnswerMatch(option, answer, optionIndex, allOptions)
isAnswerMatch(option, answer, optionIndex, allOptions) ==
  IF option = Null \/ option = <<>> THEN FALSE
  ELSE IF normalize(option) = normalize(answer) THEN TRUE
  ELSE IF strictContentMatchExists(normalize(answer), allOptions) THEN FALSE
  ELSE IndexMatch(normalize(answer), optionIndex)

\* --------------------------------------------------------- matcher inputs
Alphabet == {"a", " ", ".", "0", "1", "2", "(", ")", "c2"}

StringsUpTo(n) == UNION {[1..k -> Alphabet] : k \in 0..n}

\* Candidate options handed to isAnswerMatch.
OptionPool == {Null, <<>>, <<" ">>, <<"a">>, <<"A", ".">>, <<"2">>}

\* Option lists handed to isAnswerMatch.
OptionLists == {<<>>, <<<<"2">>, <<"1">>, <<"A", " ">>>>}

\* Option indexes handed to isAnswerMatch (-1 is the fallback of handleNext).
Indexes == {-1, 0, 1, 11}

VARIABLES option, answer, optionIndex, allOptions, matchDone, matched

mvars == <<option, answer, optionIndex, allOptions, matchDone, matched>>

\* ------------------------------------------------------ the Quiz component
VARIABLES
  questions,             \* props.questions (safeQuestions), fixed for the session
  currentQuestionIndex,  \* 0-based, as in the code
  userAnswers,           \* per question: Null or the stored answer
  checkedStates,         \* per question: answer revealed
  showResults,
  tempShortAnswer,       \* the textarea's text
  shortAnswerGrades,     \* per question: "null" or the grade the user chose
  aiEvaluations,         \* per question: "null" or the grade of the AI evaluation
  isAiGrading,
  aiRequests,            \* evaluateShortAnswer calls in flight, each with the
                         \* currentQuestionIndex and aiEvaluations it closed over
  submitted              \* the calls of onSubmit so far, in order

qvars == <<questions, currentQuestionIndex, userAnswers, checkedStates,
           showResults, tempShortAnswer, shortAnswerGrades, aiEvaluations,
           isAiGrading, aiRequests, submitted>>

\* ------------------------------------------- audio state of the component
VARIABLES
  mounted,          \* the component is mounted (its cleanup has not run)
  isSpeaking,
  isLoadingTTS,
  audioContextRef,  \* audioContextRef.current: 0 (null) or the play that made it
  audioSourceRef,   \* audioSourceRef.current: 0 (null) or the play that made it
  plays             \* the calls of handlePlayScript that went past the toggle,
                    \* in order: the text, the question it was asked on, where
                    \* the async function stands, and the state of the
                    \* AudioContext and of the source node it created

avars == <<mounted, isSpeaking, isLoadingTTS, audioContextRef, audioSourceRef,
           plays>>

\* ------------------------------------- the CurriculumSelector component
VARIABLES
  selectedCurriculumName,
  selectedSubjectName,
  selectedGrade,
  selectedUnitName,
  selectedStandardId,
  searchTerm,
  showSearchResults,
  apiStatus,             \* props.apiStatus
  started                \* the calls of onStartStudy so far, in order

svars == <<selectedCurriculumName, selectedSubjectName, selectedGrade,
           selectedUnitName, selectedStandardId, searchTerm, showSearchResults,
           apiStatus, started>>

vars == <<mvars, qvars, avars, svars>>

Grades == {"A", "B", "C", "D", "E"}

\* Grades the grading assistant returns in the model.
AiResults == {"B"}

MultipleChoice == "multiple-choice"
Ox == "ox"
ShortAnswer == "short-answer"
Creativity == "creativity"

Question(type, opts, ans) == [questionType |-> type, options |-> opts, answer |-> ans]

\* The questions a quiz is drawn from; options <<>> stands for a missing or
\* empty option list (the code treats the two alike).
QuestionPool ==
  { Question(MultipleChoice, <<<<"a">>, <<"b">>>>, <<"A", ".">>),
    Question(MultipleChoice, <<<<"a">>, <<"b">>>>, <<"2">>),
    Question(MultipleChoice, <<<<"a">>, <<"a">>>>, <<"2">>),
    Question(MultipleChoice, <<>>, <<"a">>),
    Question(Ox, <<>>, <<"O">>),
    Question(Ox, <<>>, <<"0">>),
    Question(ShortAnswer, <<>>, <<"a">>),
    Question(Creativity, <<>>, <<"b">>) }

\* Texts the user types into the textarea.
TextPool == {<<>>, <<" ">>, <<"a">>}

\* The inserts of mathSymbols, one character each in the model.
MathInserts == {<<"$">>}

Quizzes == UNION {[1..n -> QuestionPool] : n \in 1..MaxQuestions}

N == Len(questions)

currentQuestion == questions[currentQuestionIndex + 1]

isMcOrOx(q) == q.questionType = MultipleChoice \/ q.questionType = Ox

\* str.trim() is non-empty
NonBlank(str) == \E i \in 1..Len(str) : str[i] \notin Whitespace

\* The option list renderQuestionInput displays: ox questions without
\* options get ['O', 'X']; a closed question without options displays none.
DisplayedOptions(q) ==
  IF ~isMcOrOx(q) THEN <<>>
  ELSE IF q.questionType = Ox /\ q.options = <<>> THEN <<<<"O">>, <<"X">>>>
  ELSE q.options

\* The reveal label of the option displayed at position k (1-based) of
\* question q: isAnswerMatch on the option, its index and the displayed list.
isCorrectAnswer(q, k) ==
  isAnswerMatch(DisplayedOptions(q)[k], q.answer, k - 1, DisplayedOptions(q))

\* The effect that syncs tempShortAnswer after currentQuestionIndex or
\* userAnswers changed: the saved answer (or '') of an open question, ''
\* of a closed one.
SyncedTemp(index, answers) ==
  IF isMcOrOx(questions[index + 1]) THEN <<>>
  ELSE IF answers[index + 1] = Null THEN <<>> ELSE answers[index + 1]

\* A component that keeps rendering the quiz after the results (not the code).
RenderedAlways == mounted

\* if (showResults) return null: the quiz is on screen until finalization
\* (and while the component is mounted).
Rendered == mounted /\ ~showResults

\* ------------------------------------------------ the curriculum data
Std(id, description) == [id |-> id, description |-> description]

\* The unit name of a subject in preparation (the literal isSubjectReady
\* tests for).
Placeholder == <<"p">>

\* props.educationCurriculums: two curricula that share names of subjects,
\* grades, units and standard ids.
educationCurriculums ==
  << [name |-> "c1",
      subjects |->
        << [name |-> "S",
            grades |->
              << [grade |-> "g1",
                  units |->
                    << [name |-> <<"a", "1">>,
                        standards |-> << Std(<<"1">>, <<"A", "x">>),
                                         Std(<<"2">>, <<"b">>) >>],
                       [name |-> <<"a", "2">>,
                        standards |-> << Std(<<"3">>, <<"x">>) >>] >>],
                 [grade |-> "g2",
                  units |->
                    << [name |-> <<"a", "1">>,
                        standards |-> << Std(<<"2">>, <<"b">>) >>] >>] >>],
           [name |-> "T",
            grades |->
              << [grade |-> "g1",
                  units |-> << [name |-> Placeholder,
                                standards |-> <<>>] >>] >>] >>],
     [name |-> "c2",
      subjects |->
        << [name |-> "S",
            grades |->
              << [grade |-> "g1",
                  units |->
                    << [name |-> <<"a", "1">>,
                        standards |-> << Std(<<"1">>, <<"o">>) >>] >>] >>] >>] >>

\* Values of props.apiStatus: the two the component tests for and one other.
ApiStatuses == {"validating_key", "key_valid", "idle"}

\* Texts the user types into the search input.
SearchTerms == {<<>>, <<" ">>, <<"X">>, <<"1">>}

\* The useState initializers of CurriculumSelector.
InitSelector ==
  /\ selectedCurriculumName = educationCurriculums[1].name
  /\ selectedSubjectName = educationCurriculums[1].subjects[1].name
  /\ selectedGrade = ""
  /\ selectedUnitName = <<>>
  /\ selectedStandardId = <<>>
  /\ searchTerm = <<>>
  /\ showSearchResults = FALSE
  /\ apiStatus = "idle"
  /\ started = <<>>

InitMatchIdle ==
  /\ option = Null /\ answer = <<>> /\ optionIndex = -1 /\ allOptions = <<>>
  /\ matchDone = FALSE /\ matched = FALSE

InitQuiz(qs) ==
  /\ questions = qs
  /\ currentQuestionIndex = 0
  /\ userAnswers = [i \in 1..Len(qs) |-> Null]
  /\ checkedStates = [i \in 1..Len(qs) |-> FALSE]
  /\ showResults = FALSE
  /\ tempShortAnswer = <<>>
  /\ shortAnswerGrades = [i \in 1..Len(qs) |-> "null"]
  /\ aiEvaluations = [i \in 1..Len(qs) |-> "null"]
  /\ isAiGrading = FALSE
  /\ aiRequests = {}
  /\ submitted = <<>>
  /\ mounted = TRUE
  /\ isSpeaking = FALSE
  /\ isLoadingTTS = FALSE
  /\ audioContextRef = 0
  /\ audioSourceRef = 0
  /\ plays = <<>>
  /\ InitSelector

Init == InitMatchIdle /\ \E qs \in Quizzes : InitQuiz(qs)

InitMatch ==
  /\ option \in OptionPool
  /\ answer \in StringsUpTo(MaxLen)
  /\ optionIndex \in Indexes
  /\ allOptions \in OptionLists
  /\ matchDone = FALSE
  /\ matched = FALSE
  /\ InitQuiz(<<Question(Ox, <<>>, <<"O">>)>>)

\* One call of isAnswerMatch on the drawn arguments.
CallIsAnswerMatch ==
  /\ ~matchDone
  /\ matched' = isAnswerMatch(option, answer, optionIndex, allOptions)
  /\ matchDone' = TRUE
  /\ UNCHANGED <<option, answer, optionIndex, allOptions>>
  /\ UNCHANGED <<qvars, avars, svars>>

NextMatch == CallIsAnswerMatch

SpecMatch == InitMatch /\ [][NextMatch]_vars

\* --------------------------------------------------------- Quiz handlers
userAnswer == userAnswers[currentQuestionIndex + 1]

isAnswerChecked == checkedStates[currentQuestionIndex + 1]

\* An option select that also writes the answer of a checked question (not
\* the code).
handleAnswerSelectChecked ==
  /\ Rendered
  /\ \E k \in 1..Len(DisplayedOptions(currentQuestion)) :
       userAnswers' = [userAnswers EXCEPT ![currentQuestionIndex + 1] =
                         DisplayedOptions(currentQuestion)[k]]
  /\ tempShortAnswer' = SyncedTemp(currentQuestionIndex, userAnswers')
  /\ UNCHANGED <<questions, currentQuestionIndex, checkedStates, showResults,
                 shortAnswerGrades, aiEvaluations, isAiGrading, aiRequests,
                 submitted, mvars, avars, svars>>

\* handleAnswerSelect(option), from an option button of the displayed list.
handleAnswerSelect ==
  /\ Rendered
  /\ ~isAnswerChecked
  /\ \E k \in 1..Len(DisplayedOptions(currentQuestion)) :
       userAnswers' = [userAnswers EXCEPT ![currentQuestionIndex + 1] =
                         DisplayedOptions(currentQuestion)[k]]
  /\ tempShortAnswer' = SyncedTemp(currentQuestionIndex, userAnswers')
  /\ UNCHANGED <<questions, currentQuestionIndex, checkedStates, showResults,
                 shortAnswerGrades, aiEvaluations, isAiGrading, aiRequests,
                 submitted, mvars, avars, svars>>

\* handleShortAnswerChange(e), from the textarea of an open question.
handleShortAnswerChange ==
  /\ Rendered
  /\ ~isMcOrOx(currentQuestion)
  /\ ~isAnswerChecked
  /\ \E text \in TextPool : tempShortAnswer' = text
  /\ UNCHANGED <<questions, currentQuestionIndex, userAnswers, checkedStates,
                 showResults, shortAnswerGrades, aiEvaluations, isAiGrading,
                 aiRequests, submitted, mvars, avars, svars>>

\* The selections of the textarea a math symbol is inserted at: the whole
\* text selected (the caret in an empty textarea).
Selections(text) == {<<0, Len(text)>>}

\* insertMathSymbol(insert, move), from a toolbar button of an open question:
\* the insert replaces the selection start..end of the textarea.
insertMathSymbol ==
  /\ Rendered
  /\ ~isMcOrOx(currentQuestion)
  /\ ~isAnswerChecked
  /\ \E insert \in MathInserts :
       \E sel \in Selections(tempShortAnswer) :
         LET start == sel[1]
             end == sel[2]
         IN  tempShortAnswer' =
               SubSeq(tempShortAnswer, 1, start) \o insert
                 \o SubSeq(tempShortAnswer, end + 1, Len(tempShortAnswer))
  /\ UNCHANGED <<questions, currentQuestionIndex, userAnswers, checkedStates,
                 showResults, shortAnswerGrades, aiEvaluations, isAiGrading,
                 aiRequests, submitted, mvars, avars, svars>>

\* A check button that is never disabled (not the code).
CheckNeverDisabled == FALSE

\* The disabled attribute of the check button.
CheckDisabled ==
  IF isMcOrOx(currentQuestion)
  THEN userAnswer = Null \/ userAnswer = <<>>
  ELSE ~NonBlank(tempShortAnswer)

\* handleCheckAnswer, from the check button (shown while not checked).
handleCheckAnswer ==
  /\ Rendered
  /\ ~isAnswerChecked
  /\ ~CheckDisabled
  /\ userAnswers' =
       IF isMcOrOx(currentQuestion) THEN userAnswers
       ELSE [userAnswers EXCEPT ![currentQuestionIndex + 1] = tempShortAnswer]
  /\ checkedStates' = [checkedStates EXCEPT ![currentQuestionIndex + 1] = TRUE]
  /\ tempShortAnswer' = SyncedTemp(currentQuestionIndex, userAnswers')
  /\ UNCHANGED <<questions, currentQuestionIndex, showResults, shortAnswerGrades,
                 aiEvaluations, isAiGrading, aiRequests, submitted, mvars, avars, svars>>

\* A grading panel shown before the answer is checked (not the code).
GradingShownUnchecked == Rendered /\ ~isMcOrOx(currentQuestion)

\* The grading panel of a checked open question is on screen.
GradingShown == Rendered /\ ~isMcOrOx(currentQuestion) /\ isAnswerChecked

\* handleGradeSelection(grade), from the five grade buttons.
handleGradeSelection ==
  /\ GradingShown
  /\ \E grade \in Grades :
       shortAnswerGrades' =
         [shortAnswerGrades EXCEPT ![currentQuestionIndex + 1] = grade]
  /\ UNCHANGED <<questions, currentQuestionIndex, userAnswers, checkedStates,
                 showResults, tempShortAnswer, aiEvaluations, isAiGrading,
                 aiRequests, submitted, mvars, avars, svars>>

\* An AI button that stays enabled while a request is in flight (not the
\* code).
handleAiGradingNotDisabled ==
  /\ GradingShown
  /\ aiEvaluations[currentQuestionIndex + 1] = "null"
  /\ isAiGrading' = TRUE
  /\ aiRequests' = aiRequests \cup
       {[index |-> currentQuestionIndex, aiEvaluations |-> aiEvaluations]}
  /\ UNCHANGED <<questions, currentQuestionIndex, userAnswers, checkedStates,
                 showResults, tempShortAnswer, shortAnswerGrades, aiEvaluations,
                 submitted, mvars, avars, svars>>

\* handleAiGrading up to its await: the button is shown while the question
\* has no evaluation and is disabled while a request is in flight.
handleAiGrading ==
  /\ GradingShown
  /\ aiEvaluations[currentQuestionIndex + 1] = "null"
  /\ ~isAiGrading
  /\ isAiGrading' = TRUE
  /\ aiRequests' = aiRequests \cup
       {[index |-> currentQuestionIndex, aiEvaluations |-> aiEvaluations]}
  /\ UNCHANGED <<questions, currentQuestionIndex, userAnswers, checkedStates,
                 showResults, tempShortAnswer, shortAnswerGrades, aiEvaluations,
                 submitted, mvars, avars, svars>>

\* A completion that also adopts the evaluation as the grade (not the code).
AiGradingResolvedSetsGrade ==
  \E r \in aiRequests : \E result \in AiResults :
    /\ aiEvaluations' = [r.aiEvaluations EXCEPT ![r.index + 1] = result]
    /\ shortAnswerGrades' = [shortAnswerGrades EXCEPT ![r.index + 1] = result]
    /\ isAiGrading' = FALSE
    /\ aiRequests' = aiRequests \ {r}
    /\ UNCHANGED <<questions, currentQuestionIndex, userAnswers, checkedStates,
                   showResults, tempShortAnswer, submitted, mvars, avars, svars>>

\* A completion that stores the evaluation at the index current when it
\* arrives (not the code).
AiGradingResolvedAtCurrent ==
  \E r \in aiRequests : \E result \in AiResults :
    /\ aiEvaluations' =
         [r.aiEvaluations EXCEPT ![currentQuestionIndex + 1] = result]
    /\ isAiGrading' = FALSE
    /\ aiRequests' = aiRequests \ {r}
    /\ UNCHANGED <<questions, currentQuestionIndex, userAnswers, checkedStates,
                   showResults, tempShortAnswer, shortAnswerGrades, submitted,
                   mvars, avars, svars>>

\* handleAiGrading after its await, evaluateShortAnswer resolved.
AiGradingResolved ==
  \E r \in aiRequests : \E result \in AiResults :
    /\ aiEvaluations' = [r.aiEvaluations EXCEPT ![r.index + 1] = result]
    /\ isAiGrading' = FALSE
    /\ aiRequests' = aiRequests \ {r}
    /\ UNCHANGED <<questions, currentQuestionIndex, userAnswers, checkedStates,
                   showResults, tempShortAnswer, shortAnswerGrades, submitted,
                   mvars, avars, svars>>

\* A failure path without the finally block (not the code).
AiGradingRejectedNoFinally ==
  \E r \in aiRequests :
    /\ aiRequests' = aiRequests \ {r}
    /\ UNCHANGED <<questions, currentQuestionIndex, userAnswers, checkedStates,
                   showResults, tempShortAnswer, shortAnswerGrades, aiEvaluations,
                   isAiGrading, submitted, mvars, avars, svars>>

\* handleAiGrading after its await, evaluateShortAnswer rejected.
AiGradingRejected ==
  \E r \in aiRequests :
    /\ isAiGrading' = FALSE
    /\ aiRequests' = aiRequests \ {r}
    /\ UNCHANGED <<questions, currentQuestionIndex, userAnswers, checkedStates,
                   showResults, tempShortAnswer, shortAnswerGrades, aiEvaluations,
                   submitted, mvars, avars, svars>>

\* ------------------------------------------------------------- stopAudio
\* The texts the two play buttons read out: the question and its passage.
PlayTexts == {"question", "passage"}

\* A call of handlePlayScript that has reached its first await.
Play(text, index) ==
  [text |-> text, index |-> index, stage |-> "speech", ctx |-> "none",
   src |-> "none"]

\* stopAudio() run on the plays ps with the refs holding source srcRef and
\* context ctxRef: the source of the ref is stopped and the ref cleared; the
\* context of the ref, unless closed or closing, is asked to close (the ref
\* itself is cleared later, by ContextClosed); both flags are reset.
stopAudio(ps, srcRef, ctxRef) ==
  /\ plays' =
       [id \in DOMAIN ps |->
          [ps[id] EXCEPT
             !.src = IF id = srcRef /\ @ = "playing" THEN "stopped" ELSE @,
             !.ctx = IF id = ctxRef /\ @ \in {"running", "suspended"}
                     THEN "closing" ELSE @]]
  /\ audioSourceRef' = 0
  /\ audioContextRef' = ctxRef
  /\ isSpeaking' = FALSE
  /\ isLoadingTTS' = FALSE

\* ------------------------------------------------ finalization (handleNext)
\* Credit is counted in quarter points: 4 is the code's 1, 3 its 0.75.
\* options.findIndex(opt => opt === ans), 0-based, -1 when absent
RECURSIVE findIndexFrom(_, _, _)
findIndexFrom(options, ans, k) ==
  IF k > Len(options) THEN -1
  ELSE IF options[k] = ans THEN k - 1
  ELSE findIndexFrom(options, ans, k + 1)

findIndex(options, ans) == findIndexFrom(options, ans, 1)

\* The value the map callback of handleNext returns for one question.
Correctness(question, ans, grade) ==
  IF ~isMcOrOx(question) THEN grade \in {"A", "B", "C"}
  ELSE isAnswerMatch(ans, question.answer,
                     findIndex(question.options, ans), question.options)

\* A grade table that gives grade D half credit (not what the code does).
EarnedPointsWrongTable(question, ans, grade) ==
  IF ~isMcOrOx(question)
  THEN CASE grade = "A" -> 4
         [] grade = "B" -> 3
         [] grade = "C" -> 2
         [] grade = "D" -> 2
         [] OTHER -> 0
  ELSE IF findIndex(question.options, ans) # -1 THEN 0
  ELSE IF isAnswerMatch(ans, question.answer, -1, question.options) THEN 4
  ELSE 0

\* What the map callback of handleNext adds to totalEarnedPoints for one
\* question: on the path where the stored answer is found in the option
\* list the callback returns without adding anything.
EarnedPoints(question, ans, grade) ==
  IF ~isMcOrOx(question)
  THEN CASE grade = "A" -> 4
         [] grade = "B" -> 3
         [] grade = "C" -> 2
         [] grade = "D" -> 1
         [] OTHER -> 0
  ELSE IF findIndex(question.options, ans) # -1 THEN 0
  ELSE IF isAnswerMatch(ans, question.answer, -1, question.options) THEN 4
  ELSE 0

RECURSIVE SumSeq(_)
SumSeq(seq) == IF seq = <<>> THEN 0 ELSE Head(seq) + SumSeq(Tail(seq))

\* totalEarnedPoints after the map, in quarter points.
totalEarnedPoints ==
  SumSeq([i \in 1..N |->
            EarnedPoints(questions[i], userAnswers[i], shortAnswerGrades[i])])

calculatedCorrectness ==
  [i \in 1..N |-> Correctness(questions[i], userAnswers[i], shortAnswerGrades[i])]

\* The arguments of onSubmit.  scorePercentage, (totalEarnedPoints /
\* length) * 100, is the fraction num / den.
SessionResult ==
  [scorePercentage |-> [num |-> totalEarnedPoints * 100, den |-> 4 * N],
   correctCount |-> Cardinality({i \in 1..N : calculatedCorrectness[i]}),
   totalQuestions |-> N,
   userAnswers |-> userAnswers,
   calculatedCorrectness |-> calculatedCorrectness]

\* handleNext before the last question, with the effect on
\* currentQuestionIndex, which calls stopAudio().
handleNextAdvance ==
  /\ currentQuestionIndex < N - 1
  /\ currentQuestionIndex' = currentQuestionIndex + 1
  /\ tempShortAnswer' = SyncedTemp(currentQuestionIndex', userAnswers)
  /\ stopAudio(plays, audioSourceRef, audioContextRef)
  /\ UNCHANGED <<showResults, submitted, mounted>>

\* handleNext on the last question: the results are computed and emitted.
handleNextFinalize ==
  /\ ~(currentQuestionIndex < N - 1)
  /\ showResults' = TRUE
  /\ submitted' = Append(submitted, SessionResult)
  /\ UNCHANGED <<currentQuestionIndex, tempShortAnswer, avars>>

\* A next button shown before the question is checked (not the code).
handleNextUnchecked ==
  /\ Rendered
  /\ (handleNextAdvance \/ handleNextFinalize)
  /\ UNCHANGED <<questions, userAnswers, checkedStates, shortAnswerGrades,
                 aiEvaluations, isAiGrading, aiRequests, mvars, svars>>

\* handleNext, from the next button (shown once the question is checked).
handleNext ==
  /\ Rendered
  /\ isAnswerChecked
  /\ (handleNextAdvance \/ handleNextFinalize)
  /\ UNCHANGED <<questions, userAnswers, checkedStates, shortAnswerGrades,
                 aiEvaluations, isAiGrading, aiRequests, mvars, svars>>

Next ==
  \/ handleAnswerSelect
  \/ handleShortAnswerChange
  \/ insertMathSymbol
  \/ handleCheckAnswer
  \/ handleGradeSelection
  \/ handleAiGrading
  \/ AiGradingResolved
  \/ AiGradingRejected
  \/ handleNext

Spec == Init /\ [][Next]_vars

\* -------------------------------------------------------- audio playback
\* The disabled attribute of both play buttons.
PlayDisabled == isSpeaking \/ isLoadingTTS

\* handlePlayScript(text) up to its first await, from a play button: the
\* toggle branch stops; otherwise the speech request is issued.
handlePlayScript ==
  /\ Rendered
  /\ ~PlayDisabled
  /\ \E text \in PlayTexts :
       IF isSpeaking \/ isLoadingTTS
       THEN stopAudio(plays, audioSourceRef, audioContextRef)
       ELSE /\ Len(plays) < MaxPlays
            /\ isLoadingTTS' = TRUE
            /\ plays' = Append(plays, Play(text, currentQuestionIndex))
            /\ UNCHANGED <<isSpeaking, audioContextRef, audioSourceRef>>
  /\ UNCHANGED <<mounted, mvars, qvars, svars>>

\* The tail of handlePlayScript: the source is created on the running
\* context of play id, kept in audioSourceRef and started, and the flags are
\* set (a state update of an unmounted component is dropped).
StartSource(id, ps) ==
  /\ plays' = [ps EXCEPT ![id].ctx = "running", ![id].src = "playing",
                         ![id].stage = "done"]
  /\ audioSourceRef' = id
  /\ isLoadingTTS' = IF mounted THEN FALSE ELSE isLoadingTTS
  /\ isSpeaking' = IF mounted THEN TRUE ELSE isSpeaking

\* handlePlayScript after await generateSpeech resolved: the AudioContext is
\* created and kept in audioContextRef; a running context plays at once, a
\* suspended one waits for resume().
SpeechResolved ==
  \E id \in DOMAIN plays :
    /\ plays[id].stage = "speech"
    /\ audioContextRef' = id
    /\ \/ StartSource(id, plays)
       \/ /\ plays' = [plays EXCEPT ![id].ctx = "suspended",
                                    ![id].stage = "resume"]
          /\ UNCHANGED <<audioSourceRef, isSpeaking, isLoadingTTS>>
    /\ UNCHANGED <<mounted, mvars, qvars, svars>>

\* A catch block that only reports the failure (not the code).
SpeechRejectedNoCleanup ==
  \E id \in DOMAIN plays :
    /\ plays[id].stage = "speech"
    /\ plays' = [plays EXCEPT ![id].stage = "done"]
    /\ UNCHANGED <<audioSourceRef, audioContextRef, isSpeaking, isLoadingTTS,
                   mounted, mvars, qvars, svars>>

\* handlePlayScript after await generateSpeech rejected: the catch block
\* calls stopAudio().
SpeechRejected ==
  \E id \in DOMAIN plays :
    /\ plays[id].stage = "speech"
    /\ stopAudio([plays EXCEPT ![id].stage = "done"], audioSourceRef,
                 audioContextRef)
    /\ UNCHANGED <<mounted, mvars, qvars, svars>>

\* handlePlayScript after generateSpeech resolved with audio that decode,
\* decodeAudioData or start() throws on: the context is already in
\* audioContextRef when the catch block calls stopAudio().
PlaybackFailed ==
  \E id \in DOMAIN plays :
    /\ plays[id].stage = "speech"
    /\ stopAudio([plays EXCEPT ![id].stage = "done", ![id].ctx = "running"],
                 audioSourceRef, id)
    /\ UNCHANGED <<mounted, mvars, qvars, svars>>

\* handlePlayScript after await audioCtx.resume() resolved.
ResumeResolved ==
  \E id \in DOMAIN plays :
    /\ plays[id].stage = "resume"
    /\ plays[id].ctx = "suspended"
    /\ StartSource(id, plays)
    /\ UNCHANGED <<audioContextRef, mounted, mvars, qvars, svars>>

\* handlePlayScript after await audioCtx.resume() rejected (always so once
\* the context was closed): the catch block calls stopAudio().
ResumeRejected ==
  \E id \in DOMAIN plays :
    /\ plays[id].stage = "resume"
    /\ stopAudio([plays EXCEPT ![id].stage = "done"], audioSourceRef,
                 audioContextRef)
    /\ UNCHANGED <<mounted, mvars, qvars, svars>>

\* source.onended of a source that played to its end: stopAudio() (which
\* clears onended only on the source audioSourceRef holds).
SourceEnded ==
  \E id \in DOMAIN plays :
    /\ plays[id].src = "playing"
    /\ stopAudio([plays EXCEPT ![id].src = "ended"], audioSourceRef,
                 audioContextRef)
    /\ UNCHANGED <<mounted, mvars, qvars, svars>>

\* The then-callback of audioContextRef.current.close() in stopAudio: the
\* context is closed and audioContextRef.current, whatever it holds by now,
\* is set to null.
ContextClosed ==
  \E id \in DOMAIN plays :
    /\ plays[id].ctx = "closing"
    /\ plays' = [plays EXCEPT ![id].ctx = "closed"]
    /\ audioContextRef' = 0
    /\ UNCHANGED <<audioSourceRef, isSpeaking, isLoadingTTS, mounted, mvars,
                   qvars, svars>>

\* The cleanup of the effect on stopAudio, run when the component unmounts.
Unmount ==
  /\ mounted
  /\ mounted' = FALSE
  /\ stopAudio(plays, audioSourceRef, audioContextRef)
  /\ UNCHANGED <<mvars, qvars, svars>>

\* The quizzes of the audio specification: closed questions with a single
\* option to walk through.
AudioQuizzes ==
  UNION {[1..n -> {Question(MultipleChoice, <<<<"a">>>>, <<"a">>)}] :
           n \in 1..MaxQuestions}

InitAudio == InitMatchIdle /\ \E qs \in AudioQuizzes : InitQuiz(qs)

NextAudio ==
  \/ handleAnswerSelect
  \/ handleCheckAnswer
  \/ handleNext
  \/ handlePlayScript
  \/ SpeechResolved
  \/ SpeechRejected
  \/ PlaybackFailed
  \/ ResumeResolved
  \/ ResumeRejected
  \/ SourceEnded
  \/ ContextClosed
  \/ Unmount

SpecAudio == InitAudio /\ [][NextAudio]_vars

\* =============================================== claims about finalization
\* The credit table of the grades in quarter points, as the claims state it.
GradeQuarters(grade) ==
  CASE grade = "A" -> 4
    [] grade = "B" -> 3
    [] grade = "C" -> 2
    [] grade = "D" -> 1
    [] OTHER -> 0

\* The credit the claims give question i of an emitted result r, in quarter
\* points: 1.0 for a closed question flagged correct, the grade's credit for
\* an open one.
ClaimedQuarters(r, i) ==
  IF isMcOrOx(questions[i])
  THEN IF r.calculatedCorrectness[i] THEN 4 ELSE 0
  ELSE GradeQuarters(shortAnswerGrades[i])

\* C1 as stated: at finalization every multiple-choice/ox question adds
\* exactly 1.0 credit when its stored answer matches the canonical answer
\* and 0 otherwise, found in the option list or not, so the emitted score
\* is 100 times the sum of these credits over the question count.
C1_ClosedFormCredit ==
  \A k \in 1..Len(submitted) :
    submitted[k].scorePercentage.num * 4 * N =
      100 * SumSeq([i \in 1..N |-> ClaimedQuarters(submitted[k], i)])
          * submitted[k].scorePercentage.den

\* C2: at finalization an open question earns the credit of its grade (A 1,
\* B 0.75, C 0.5, D 0.25, E and ungraded 0) and is flagged correct exactly
\* for A, B and C; the emitted score is 100 times the credits earned over
\* the question count.
C2_OpenEndedCredit ==
  \A k \in 1..Len(submitted) :
    LET r == submitted[k]
        quarters(i) ==
          IF isMcOrOx(questions[i])
          THEN EarnedPoints(questions[i], r.userAnswers[i], shortAnswerGrades[i])
          ELSE GradeQuarters(shortAnswerGrades[i])
    IN  /\ \A i \in 1..N :
             ~isMcOrOx(questions[i]) =>
               (r.calculatedCorrectness[i] <=>
                  shortAnswerGrades[i] \in {"A", "B", "C"})
        /\ r.scorePercentage.den = 4 * N
        /\ r.scorePercentage.num = 100 * SumSeq([i \in 1..N |-> quarters(i)])

\* Two short-answer questions graded B and D: score 50, one correct.
C2_Witness ==
  /\ Len(submitted) = 1
  /\ N = 2
  /\ \A i \in 1..2 : questions[i].questionType = ShortAnswer
  /\ shortAnswerGrades = <<"B", "D">>
  /\ submitted[1].scorePercentage.num = 50 * submitted[1].scorePercentage.den
  /\ submitted[1].correctCount = 1

\* C3 as stated: the emitted tuple has one flag per question in question
\* order, score * N = 100 * (sum of the credit fractions), correctCount is
\* the number of true flags, totalQuestions is N and the answers are the
\* stored answers.
C3_Aggregation ==
  \A k \in 1..Len(submitted) :
    LET r == submitted[k]
    IN  /\ Len(r.calculatedCorrectness) = N
        /\ \A i \in 1..N :
             r.calculatedCorrectness[i] =
               Correctness(questions[i], userAnswers[i], shortAnswerGrades[i])
        /\ r.scorePercentage.num * N * 4 =
             100 * SumSeq([i \in 1..N |-> ClaimedQuarters(r, i)])
                 * r.scorePercentage.den
        /\ r.correctCount =
             Cardinality({i \in 1..N : r.calculatedCorrectness[i]})
        /\ r.totalQuestions = N
        /\ r.userAnswers = userAnswers

\* C4: onSubmit is called at most once, only by handleNext on the checked
\* last question, and nothing is emitted or changed in what was emitted
\* once showResults is true.
C4_SubmitOnce ==
  [][ /\ Len(submitted') <= 1
      /\ submitted' # submitted =>
           /\ ~showResults /\ showResults'
           /\ currentQuestionIndex = N - 1
           /\ isAnswerChecked
           /\ submitted' = <<SessionResult>>
      /\ showResults => (showResults' /\ submitted' = submitted) ]_vars

\* The results are out while a grading request is still in flight.
C4_Witness ==
  /\ showResults
  /\ Len(submitted) = 1
  /\ aiRequests # {}

\* C9 as stated: at finalization a closed question whose stored answer is
\* not in its option list is flagged correct only when the stored answer
\* equals the canonical answer after normalization.
C9_DirectMatchFallback ==
  \A k \in 1..Len(submitted) :
    \A i \in 1..N :
      (/\ isMcOrOx(questions[i])
       /\ findIndex(questions[i].options, submitted[k].userAnswers[i]) = -1
       /\ submitted[k].calculatedCorrectness[i])
      => (/\ submitted[k].userAnswers[i] # Null
          /\ normalize(submitted[k].userAnswers[i]) = normalize(questions[i].answer))

\* ============================================== claims about isAnswerMatch
IsPunct(c) == c \in {".", ","}

EndsInPunct(s) == s # <<>> /\ IsPunct(s[Len(s)])

\* The 1-based index string of the drawn index, as the claims name it.
OneBased == toString(optionIndex + 1)

\* No option of the drawn list equals the drawn answer after normalization.
NoContentCollision ==
  \A j \in 1..Len(allOptions) : normalize(allOptions[j]) # normalize(answer)

\* C5 as stated: every pair of strings equal after normalization matches,
\* the empty candidate included.
C5_AsStated ==
  (matchDone /\ option # Null /\ normalize(option) = normalize(answer)) => matched

\* C5 (amended): a non-empty candidate that equals the answer after
\* normalization matches, for every index and every option list.
C5_NormalizedEqualMatches ==
  (matchDone /\ option # Null /\ option # <<>>
     /\ normalize(option) = normalize(answer)) => matched

C5_Witness ==
  /\ matchDone /\ matched
  /\ option = <<"A", ".">> /\ answer = <<" ", "a", ".">>
  /\ optionIndex = 11 /\ allOptions = <<<<"2">>, <<"1">>, <<"A", " ">>>>

\* C6: when some option of the list equals the answer after normalization,
\* a candidate that differs from the answer after normalization never
\* matches, whatever its index.
C6_ContentMatchSuppressesPosition ==
  (matchDone /\ ~NoContentCollision
     /\ (option = Null \/ normalize(option) # normalize(answer))) => ~matched

\* The answer "1" is the content of the second option, and the candidate "2"
\* sits at index 0, whose 1-based index string is "1".
C6_Witness ==
  /\ matchDone /\ ~matched
  /\ option = <<"2">> /\ optionIndex = 0
  /\ normalize(answer) = <<"1">>
  /\ allOptions = <<<<"2">>, <<"1">>, <<"A", " ">>>>

\* C7: with no content collision, a non-empty candidate matches when the
\* normalized answer is the 1-based index string, or starts with "<i+1>.",
\* "<i+1>)" or "(<i+1>)".
C7_IndexFallback ==
  (matchDone /\ NoContentCollision /\ option # Null /\ option # <<>>
     /\ (\/ normalize(answer) = OneBased
         \/ startsWith(normalize(answer), OneBased \o <<".">>)
         \/ startsWith(normalize(answer), OneBased \o <<")">>)
         \/ startsWith(normalize(answer), <<"(">> \o OneBased \o <<")">>)))
  => matched

C7_Witness ==
  /\ matchDone /\ matched /\ NoContentCollision
  /\ option = <<"a">> /\ optionIndex = 1
  /\ answer = <<"(", "2", ")">>

\* The normalized answer is one of the index forms (no glyph involved).
IndexForm ==
  \/ normalize(answer) = OneBased
  \/ startsWith(normalize(answer), OneBased \o <<".">>)
  \/ startsWith(normalize(answer), OneBased \o <<")">>)
  \/ startsWith(normalize(answer), <<"(">> \o OneBased \o <<")">>)

\* C8: with no content collision, a non-empty candidate at index 0..9
\* matches when the normalized answer contains the circled numeral of its
\* position; at an index outside 0..9 a match is never owed to a glyph: it
\* is a content match or an index form.
C8_CircledGlyph ==
  /\ (matchDone /\ NoContentCollision /\ option # Null /\ option # <<>>
        /\ optionIndex \in 0..9
        /\ includes(normalize(answer), circledNumbers[optionIndex + 1]))
     => matched
  /\ (matchDone /\ matched /\ optionIndex \notin 0..9)
     => (normalize(option) = normalize(answer) \/ IndexForm)

C8_Witness ==
  /\ matchDone /\ matched /\ NoContentCollision
  /\ option = <<"a">> /\ optionIndex = 1
  /\ answer = <<"a", "c2", ".">>

\* An index without a glyph meets an answer made of a glyph: no match.
C8_WitnessNoGlyph ==
  /\ matchDone /\ ~matched
  /\ option = <<"a">> /\ optionIndex = 11
  /\ answer = <<"c2">>

\* --- C10: the variations of a string the claim names
SwapCase(c) == CASE c = "a" -> "A" [] c = "A" -> "a" [] OTHER -> c

AddWhitespace(s) ==
  {SubSeq(s, 1, k) \o <<" ">> \o SubSeq(s, k + 1, Len(s)) : k \in 0..Len(s)}

RemoveWhitespace(s) ==
  {SubSeq(s, 1, k - 1) \o SubSeq(s, k + 1, Len(s)) :
     k \in {i \in 1..Len(s) : s[i] \in Whitespace}}

ChangeCase(s) ==
  {[s EXCEPT ![k] = SwapCase(s[k])] : k \in 1..Len(s)}

AppendPunct(s) == {s \o <<".">>, s \o <<",">>}

Variations(s) ==
  AddWhitespace(s) \cup RemoveWhitespace(s) \cup ChangeCase(s) \cup AppendPunct(s)

\* Appending is left out when the string, its whitespace removed, already
\* ends in a period or comma.
SafeVariations(s) ==
  AddWhitespace(s) \cup RemoveWhitespace(s) \cup ChangeCase(s)
    \cup (IF EndsInPunct(StripWhitespace(s)) THEN {} ELSE AppendPunct(s))

\* C10 as stated: the result is unchanged by adding or removing whitespace,
\* changing letter case, or appending one trailing period or comma to the
\* candidate or to the answer.
C10_AsStated ==
  matchDone =>
    /\ \A v \in Variations(answer) :
         isAnswerMatch(option, v, optionIndex, allOptions) = matched
    /\ option # Null =>
         \A v \in Variations(option) :
           isAnswerMatch(v, answer, optionIndex, allOptions) = matched

\* C10 (amended): the result is unchanged by adding or removing whitespace
\* or changing letter case, and by appending one period or comma to a string
\* that, its whitespace removed, does not already end in one, as long as the
\* candidate is non-empty before and after; of two trailing punctuation
\* characters only the last is removed.
C10_NormalizationInvariance ==
  /\ matchDone =>
       /\ \A v \in SafeVariations(answer) :
            isAnswerMatch(option, v, optionIndex, allOptions) = matched
       /\ (option # Null /\ option # <<>>) =>
            \A v \in SafeVariations(option) \ {<<>>} :
              isAnswerMatch(v, answer, optionIndex, allOptions) = matched
  /\ (matchDone /\ option = <<"a">>
        /\ \E p, q \in {".", ","} : StripWhitespace(answer) = <<"a", p, q>>)
     => ~matched

\* A candidate and an answer that differ in case and whitespace match by
\* content.
C10_Witness ==
  /\ matchDone /\ matched
  /\ option = <<"A", ".">> /\ answer = <<"a", " ", ".">>
  /\ optionIndex = -1 /\ allOptions = <<>>

\* ------------------------------------------------- CurriculumSelector
Range(seq) == {seq[i] : i \in DOMAIN seq}

\* array.find(test), given the set of indexes whose element passes the
\* test: <<>> when none passes, else <<the first element that passes>>
Find(seq, passing) ==
  IF passing = {} THEN <<>>
  ELSE <<seq[CHOOSE i \in passing : \A j \in passing : i <= j]>>

\* s.includes(t) for strings
Contains(s, t) ==
  \E i \in 0..(Len(s) - Len(t)) : SubSeq(s, i + 1, i + Len(t)) = t

\* allStandards: every standard with the names on its path.
allStandards ==
  UNION {UNION {UNION {UNION {
    {[curriculumName |-> c.name, subjectName |-> sb.name, grade |-> g.grade,
      unitName |-> u.name, standard |-> st] : st \in Range(u.standards)}
    : u \in Range(g.units)} : g \in Range(sb.grades)}
    : sb \in Range(c.subjects)} : c \in Range(educationCurriculums)}

\* searchResults for a search term.
searchResults(term) ==
  IF ~NonBlank(term) THEN {}
  ELSE {item \in allStandards :
          \/ Contains(LowerCase(item.standard.description), LowerCase(term))
          \/ Contains(LowerCase(item.standard.id), LowerCase(term))
          \/ Contains(LowerCase(item.unitName), LowerCase(term))}

\* The values of the useMemo on the selections.
curriculum ==
  LET found == Find(educationCurriculums,
                    {i \in DOMAIN educationCurriculums :
                       educationCurriculums[i].name = selectedCurriculumName})
  IN  IF found = <<>> THEN educationCurriculums[1] ELSE found[1]

availableSubjects == curriculum.subjects

selectedSubject ==
  Find(availableSubjects,
       {i \in DOMAIN availableSubjects :
          availableSubjects[i].name = selectedSubjectName})

availableGrades ==
  IF selectedSubject = <<>> THEN <<>>
  ELSE [i \in DOMAIN selectedSubject[1].grades |->
          selectedSubject[1].grades[i].grade]

selectedGradeContent ==
  IF selectedSubject = <<>> THEN <<>>
  ELSE Find(selectedSubject[1].grades,
            {i \in DOMAIN selectedSubject[1].grades :
               selectedSubject[1].grades[i].grade = selectedGrade})

availableUnits ==
  IF selectedGradeContent = <<>> THEN <<>> ELSE selectedGradeContent[1].units

selectedUnit ==
  Find(availableUnits,
       {i \in DOMAIN availableUnits : availableUnits[i].name = selectedUnitName})

availableStandards ==
  IF selectedUnit = <<>> THEN <<>> ELSE selectedUnit[1].standards

selectedStandard ==
  Find(availableStandards,
       {i \in DOMAIN availableStandards :
          availableStandards[i].id = selectedStandardId})

isSubjectReady ==
  ~(Len(availableUnits) = 1 /\ availableUnits[1].name = Placeholder)

\* The unit and standard selects are replaced by a placeholder while a
\* grade of a subject in preparation is selected.
UnitSelectsShown == ~(selectedGrade # "" /\ ~isSubjectReady)

handleSubjectChange ==
  /\ Len(availableSubjects) # 0
  /\ \E sb \in Range(availableSubjects) :
       /\ sb.name # selectedSubjectName
       /\ selectedSubjectName' = sb.name
  /\ selectedGrade' = ""
  /\ selectedUnitName' = <<>>
  /\ selectedStandardId' = <<>>
  /\ UNCHANGED <<selectedCurriculumName, searchTerm, showSearchResults,
                 apiStatus, started, mvars, qvars, avars>>

\* A grade change that keeps the selected standard (not the code).
handleGradeChangeKeepsStandard ==
  /\ selectedSubjectName # ""
  /\ \E g \in Range(availableGrades) :
       g # selectedGrade /\ selectedGrade' = g
  /\ selectedUnitName' = <<>>
  /\ UNCHANGED <<selectedCurriculumName, selectedSubjectName,
                 selectedStandardId, searchTerm, showSearchResults, apiStatus,
                 started, mvars, qvars, avars>>

handleGradeChange ==
  /\ selectedSubjectName # ""
  /\ \E g \in Range(availableGrades) :
       g # selectedGrade /\ selectedGrade' = g
  /\ selectedUnitName' = <<>>
  /\ selectedStandardId' = <<>>
  /\ UNCHANGED <<selectedCurriculumName, selectedSubjectName, searchTerm,
                 showSearchResults, apiStatus, started, mvars, qvars, avars>>

handleUnitChange ==
  /\ UnitSelectsShown
  /\ selectedGrade # ""
  /\ \E u \in Range(availableUnits) :
       u.name # selectedUnitName /\ selectedUnitName' = u.name
  /\ selectedStandardId' = <<>>
  /\ UNCHANGED <<selectedCurriculumName, selectedSubjectName, selectedGrade,
                 searchTerm, showSearchResults, apiStatus, started, mvars,
                 qvars, avars>>

handleStandardChange ==
  /\ UnitSelectsShown
  /\ selectedUnitName # <<>>
  /\ Len(availableStandards) # 0
  /\ \E st \in Range(availableStandards) :
       st.id # selectedStandardId /\ selectedStandardId' = st.id
  /\ UNCHANGED <<selectedCurriculumName, selectedSubjectName, selectedGrade,
                 selectedUnitName, searchTerm, showSearchResults, apiStatus,
                 started, mvars, qvars, avars>>

\* A submit button that ignores the API status (not the code).
SubmitDisabledIgnoresStatus == selectedStandardId = <<>>

\* The disabled attribute of the submit button.
SubmitDisabled == selectedStandardId = <<>> \/ apiStatus # "key_valid"

\* handleSubmit, from the submit button.
handleSubmit ==
  /\ ~SubmitDisabled
  /\ IF selectedSubject # <<>> /\ selectedStandard # <<>>
     THEN /\ Len(started) < MaxStarts
          /\ started' = Append(started, [subjectName |-> selectedSubject[1].name,
                                          standard |-> selectedStandard[1]])
     ELSE UNCHANGED started
  /\ UNCHANGED <<selectedCurriculumName, selectedSubjectName, selectedGrade,
                 selectedUnitName, selectedStandardId, searchTerm,
                 showSearchResults, apiStatus, mvars, qvars, avars>>

\* A search selection followed by the reset of a subject change (not the
\* code).
handleSearchSelectWithReset ==
  /\ showSearchResults
  /\ searchTerm # <<>>
  /\ \E item \in searchResults(searchTerm) :
       /\ selectedCurriculumName' = item.curriculumName
       /\ selectedSubjectName' = item.subjectName
  /\ selectedGrade' = ""
  /\ selectedUnitName' = <<>>
  /\ selectedStandardId' = <<>>
  /\ showSearchResults' = FALSE
  /\ searchTerm' = <<>>
  /\ UNCHANGED <<apiStatus, started, mvars, qvars, avars>>

\* handleSearchSelect(item), from an entry of the result list.
handleSearchSelect ==
  /\ showSearchResults
  /\ searchTerm # <<>>
  /\ \E item \in searchResults(searchTerm) :
       /\ selectedCurriculumName' = item.curriculumName
       /\ selectedSubjectName' = item.subjectName
       /\ selectedGrade' = item.grade
       /\ selectedUnitName' = item.unitName
       /\ selectedStandardId' = item.standard.id
  /\ showSearchResults' = FALSE
  /\ searchTerm' = <<>>
  /\ UNCHANGED <<apiStatus, started, mvars, qvars, avars>>

\* onChange of the search input.
SearchInputChange ==
  /\ \E term \in SearchTerms : term # searchTerm /\ searchTerm' = term
  /\ showSearchResults' = TRUE
  /\ UNCHANGED <<selectedCurriculumName, selectedSubjectName, selectedGrade,
                 selectedUnitName, selectedStandardId, apiStatus, started,
                 mvars, qvars, avars>>

\* onFocus of the search input.
SearchInputFocus ==
  /\ showSearchResults' = TRUE
  /\ UNCHANGED <<selectedCurriculumName, selectedSubjectName, selectedGrade,
                 selectedUnitName, selectedStandardId, searchTerm, apiStatus,
                 started, mvars, qvars, avars>>

\* handleClickOutside: a mousedown outside the search box.
handleClickOutside ==
  /\ showSearchResults' = FALSE
  /\ UNCHANGED <<selectedCurriculumName, selectedSubjectName, selectedGrade,
                 selectedUnitName, selectedStandardId, searchTerm, apiStatus,
                 started, mvars, qvars, avars>>

\* The parent passes a new apiStatus.
ApiStatusChange ==
  /\ \E status \in ApiStatuses : status # apiStatus /\ apiStatus' = status
  /\ UNCHANGED <<selectedCurriculumName, selectedSubjectName, selectedGrade,
                 selectedUnitName, selectedStandardId, searchTerm,
                 showSearchResults, started, mvars, qvars, avars>>

InitSelectorSpec ==
  InitMatchIdle /\ InitQuiz(<<Question(Ox, <<>>, <<"O">>)>>)

NextSelector ==
  \/ handleSubjectChange
  \/ handleGradeChange
  \/ handleUnitChange
  \/ handleStandardChange
  \/ handleSubmit
  \/ handleSearchSelect
  \/ SearchInputChange
  \/ SearchInputFocus
  \/ handleClickOutside
  \/ ApiStatusChange

SpecSelector == InitSelectorSpec /\ [][NextSelector]_vars

\* ================================ claims about the progression of a question
\* C11 as stated: once a question has a stored answer, no step changes it.
C11_AsStated ==
  [][\A i \in 1..N :
       userAnswers[i] # Null => userAnswers'[i] = userAnswers[i]]_vars

\* C11: the stored answer of a question changes only while the question is
\* not Checked; once it is Checked it stays Checked and no step changes its
\* stored answer.
C11_CheckedAnswerFrozen ==
  [][\A i \in 1..N :
       checkedStates[i] =>
         checkedStates'[i] /\ userAnswers'[i] = userAnswers[i]]_vars

\* A checked question with its stored answer is on screen, where the option
\* buttons and the check button could act on it.
C11_Witness ==
  /\ Rendered
  /\ isAnswerChecked
  /\ userAnswer # Null
  /\ isMcOrOx(currentQuestion)
  /\ Len(DisplayedOptions(currentQuestion)) > 1

\* C12: in every reachable state a question with a grade, an AI evaluation
\* or an AI grading request in flight is Checked.
C12_GradedOnlyChecked ==
  \A i \in 1..N :
    (\/ shortAnswerGrades[i] # "null"
     \/ aiEvaluations[i] # "null"
     \/ \E r \in aiRequests : r.index = i - 1) => checkedStates[i]

\* A question holds both a manual grade and an AI evaluation.
C12_Witness ==
  \E i \in 1..N : shortAnswerGrades[i] # "null" /\ aiEvaluations[i] # "null"

\* C13: every question before the current one is Checked; the results are
\* shown and emitted only from the last question, with every question
\* Checked.
C13_AdvanceOnlyChecked ==
  /\ \A i \in 1..N : i - 1 < currentQuestionIndex => checkedStates[i]
  /\ submitted # <<>> => showResults
  /\ showResults =>
       currentQuestionIndex = N - 1 /\ \A i \in 1..N : checkedStates[i]

\* A quiz of several questions was walked through and finalized.
C13_Witness == showResults /\ N > 1 /\ submitted # <<>>

\* C14: a completion that stores the evaluation of a request issued at
\* index k stores it at index k and changes no other index, wherever the
\* current question index is by then.
C14_StoredAtRequestIndex ==
  [][\A r \in aiRequests :
       (r \notin aiRequests' /\ aiEvaluations' # aiEvaluations) =>
         /\ aiEvaluations'[r.index + 1] \in Grades
         /\ \A i \in 1..N :
              i # r.index + 1 => aiEvaluations'[i] = aiEvaluations[i]]_vars

\* A request is pending after the user moved on from its question.
C14_Witness ==
  \E r \in aiRequests :
    r.index # currentQuestionIndex /\ aiEvaluations[r.index + 1] = "null"

Playing == {id \in DOMAIN plays : plays[id].src = "playing"}

OpenContexts == {id \in DOMAIN plays : plays[id].ctx \in {"running", "suspended"}}

\* C16: at most one source is playing and at most one context is open at
\* any time, and a playing source is the one audioSourceRef holds.
C16_OnePlayback ==
  /\ Cardinality(Playing) <= 1
  /\ Cardinality(OpenContexts) <= 1
  /\ \A id \in Playing : audioSourceRef = id

\* C17: a source that is playing was requested on the question that is
\* current now: nothing requested on an earlier question plays after the
\* index changed.
C17_NavigationCancels ==
  \A id \in Playing : plays[id].index = currentQuestionIndex

\* C18: once the component is unmounted no source is playing and no context
\* is open.
C18_UnmountReleases == ~mounted => Playing = {} /\ OpenContexts = {}

\* C19: while a speech request is loading or a playback is active the play
\* control can be invoked, and invoking it issues no new request and leaves
\* isSpeaking and isLoadingTTS false.
C19_ToggleStops ==
  [][(Rendered /\ (isSpeaking \/ isLoadingTTS)) =>
       /\ ~PlayDisabled
       /\ handlePlayScript =>
            ~isSpeaking' /\ ~isLoadingTTS' /\ Len(plays') = Len(plays)]_vars

\* C20: while the source of one text is playing, playback of a different
\* text can be requested (and then replaces it).
C20_SwitchText ==
  \A id \in Playing :
    (Rendered /\ audioSourceRef = id) =>
      \E text \in PlayTexts : text # plays[id].text /\ ~PlayDisabled

\* A step in which a play ends without its source ever having started:
\* generateSpeech, resume(), decoding or start() failed.
PlayFails ==
  \E id \in DOMAIN plays :
    /\ plays[id].stage # "done"
    /\ plays'[id].stage = "done"
    /\ plays'[id].src = "none"

\* C21: after a step in which a play fails, audioSourceRef is null, the
\* context audioContextRef holds (if any) is closed or closing, isSpeaking
\* and isLoadingTTS are false, and the play control of a quiz on screen is
\* enabled.
C21_FailureCleansUp ==
  [][PlayFails =>
       /\ audioSourceRef' = 0
       /\ audioContextRef' # 0 =>
            plays'[audioContextRef'].ctx \in {"closing", "closed"}
       /\ ~isSpeaking' /\ ~isLoadingTTS'
       /\ Rendered' => ~PlayDisabled']_vars

\* A play failed after its context was created, the cleanup has run and the
\* play control is enabled again.
C21_Witness ==
  /\ Rendered
  /\ ~PlayDisabled
  /\ audioSourceRef = 0
  /\ \E id \in DOMAIN plays :
       /\ plays[id].stage = "done"
       /\ plays[id].src = "none"
       /\ plays[id].ctx = "closing"

\* The options of the list are pairwise distinct after normalization.
PairwiseDistinct(opts) ==
  \A i, j \in 1..Len(opts) : i # j => normalize(opts[i]) # normalize(opts[j])

\* The option indexes (1-based) of the list that isAnswerMatch judges a match.
MatchedIndexes(ans, opts) ==
  {k \in 1..Len(opts) : isAnswerMatch(opts[k], ans, k - 1, opts)}

\* C27: for an option list whose options are pairwise distinct after
\* normalization, isAnswerMatch judges at most one option index a match.
C27_AtMostOneMatch ==
  (matchDone /\ PairwiseDistinct(allOptions)) =>
    Cardinality(MatchedIndexes(answer, allOptions)) <= 1

\* ===================================== claims about the session as a whole
\* The question on screen offers no input that could lead to its check.
NoInput ==
  IF isMcOrOx(currentQuestion) THEN DisplayedOptions(currentQuestion) = <<>>
  ELSE FALSE

\* C22: the quiz never gets stuck on a question: while it is on screen the
\* question is either checked (the next button is shown), can be checked, or
\* offers an input that enables the check.
C22_NeverStuck == Rendered => (isAnswerChecked \/ ~CheckDisabled \/ ~NoInput)

\* C26: for every closed question of an emitted result, each displayed
\* option equal to the stored answer carries the reveal label exactly when
\* the result's correctness flag of the question is true.
C26_RevealMatchesResult ==
  \A j \in DOMAIN submitted : \A i \in 1..N :
    isMcOrOx(questions[i]) =>
      \A k \in 1..Len(DisplayedOptions(questions[i])) :
        DisplayedOptions(questions[i])[k] = submitted[j].userAnswers[i] =>
          (isCorrectAnswer(questions[i], k)
             <=> submitted[j].calculatedCorrectness[i])

\* C28: at most one evaluateShortAnswer call is in flight, and no step
\* removes or replaces an evaluation that is stored.
C28_OneRequestNoLostEvaluation ==
  [][/\ Cardinality(aiRequests') <= 1
     /\ \A i \in 1..N :
          aiEvaluations[i] # "null" => aiEvaluations'[i] = aiEvaluations[i]]_vars

\* Two questions hold an evaluation: the completion of the later request
\* kept the earlier one.
C28_Witness ==
  \E i, k \in 1..N :
    i # k /\ aiEvaluations[i] # "null" /\ aiEvaluations[k] # "null"

\* C29: a step that issues or ends an AI grading request changes no stored
\* answer, checked state or grade; a result, when it is emitted, is the
\* value computed from the questions, the stored answers and the
\* user-selected grades alone, and flags an open question correct exactly
\* when its user-selected grade is A, B or C.
C29_AiNeverInfluencesResult ==
  [][/\ (aiEvaluations' # aiEvaluations \/ aiRequests' # aiRequests) =>
          UNCHANGED <<questions, userAnswers, checkedStates, shortAnswerGrades,
                      submitted>>
     /\ submitted' # submitted =>
          /\ submitted'[Len(submitted')] = SessionResult
          /\ \A i \in 1..N :
               ~isMcOrOx(questions[i]) =>
                 (submitted'[Len(submitted')].calculatedCorrectness[i]
                    <=> shortAnswerGrades[i] \in {"A", "B", "C"})]_vars

\* A result was emitted for a quiz with an evaluated open question whose
\* evaluation differs from the grade the user selected.
C29_Witness ==
  /\ submitted # <<>>
  /\ \E i \in 1..N :
       aiEvaluations[i] # "null" /\ shortAnswerGrades[i] # aiEvaluations[i]

\* C30: a Checked question has a stored answer: one of its displayed options
\* if it is closed, a non-blank text if it is open.
C30_CheckedHasAnswer ==
  \A i \in 1..N :
    checkedStates[i] =>
      /\ userAnswers[i] # Null
      /\ IF isMcOrOx(questions[i])
         THEN \E k \in 1..Len(DisplayedOptions(questions[i])) :
                DisplayedOptions(questions[i])[k] = userAnswers[i]
         ELSE NonBlank(userAnswers[i])

\* A closed and an open question are both Checked at finalization.
C30_Witness ==
  /\ showResults
  /\ \E i, k \in 1..N :
       /\ isMcOrOx(questions[i]) /\ checkedStates[i]
       /\ ~isMcOrOx(questions[k]) /\ checkedStates[k]

\* =================================== claims about the curriculum selector
\* A step of handleSearchSelect: the result list was open on a non-empty
\* search term and the step closes it and clears the term.
SearchSelectStep ==
  /\ showSearchResults /\ searchTerm # <<>>
  /\ ~showSearchResults' /\ searchTerm' = <<>>

\* C23: a step other than a search selection never changes the curriculum;
\* if it changes the subject it clears grade, unit and standard; if it
\* changes the grade (not the subject) it clears unit and standard; if it
\* changes the unit (not subject or grade) it clears the standard; if it
\* sets a standard it changes no other selection.
C23_DropdownResets ==
  [][~SearchSelectStep =>
       /\ selectedCurriculumName' = selectedCurriculumName
       /\ selectedSubjectName' # selectedSubjectName =>
            selectedGrade' = "" /\ selectedUnitName' = <<>>
              /\ selectedStandardId' = <<>>
       /\ (selectedSubjectName' = selectedSubjectName
             /\ selectedGrade' # selectedGrade) =>
            selectedUnitName' = <<>> /\ selectedStandardId' = <<>>
       /\ (selectedSubjectName' = selectedSubjectName
             /\ selectedGrade' = selectedGrade
             /\ selectedUnitName' # selectedUnitName) =>
            selectedStandardId' = <<>>
       /\ (selectedStandardId' # selectedStandardId
             /\ selectedStandardId' # <<>>) =>
            UNCHANGED <<selectedSubjectName, selectedGrade,
                        selectedUnitName>>]_vars

\* Subject, grade, unit and standard are all selected, with the second
\* unit of the grade (a unit change has something to clear).
C23_Witness ==
  /\ selectedSubjectName # "" /\ selectedGrade # ""
  /\ selectedUnitName = <<"a", "2">> /\ selectedStandardId # <<>>
  /\ searchTerm = <<>>

\* C24: a search selection sets curriculum, subject, grade, unit and
\* standard to the values of one listed result, closes the list, clears the
\* search term and records no call of onStartStudy; a call of onStartStudy
\* is recorded only by a step that changes no selection.
C24_SearchSelectSetsAll ==
  [][/\ SearchSelectStep =>
          /\ \E item \in searchResults(searchTerm) :
               /\ selectedCurriculumName' = item.curriculumName
               /\ selectedSubjectName' = item.subjectName
               /\ selectedGrade' = item.grade
               /\ selectedUnitName' = item.unitName
               /\ selectedStandardId' = item.standard.id
          /\ started' = started
     /\ started' # started =>
          UNCHANGED <<selectedCurriculumName, selectedSubjectName,
                      selectedGrade, selectedUnitName, selectedStandardId,
                      searchTerm, showSearchResults>>]_vars

\* A result of the second curriculum was selected by search (the only way
\* to change the curriculum) and nothing was started.
C24_Witness ==
  /\ selectedCurriculumName = "c2"
  /\ selectedGrade = "g1"
  /\ selectedUnitName = <<"a", "1">>
  /\ selectedStandardId = <<"1">>
  /\ searchTerm = <<>> /\ ~showSearchResults
  /\ started = <<>>

\* C25: a call of onStartStudy is recorded only while apiStatus is key_valid
\* and the selections name a standard on the path curriculum, subject,
\* grade, unit of the data; its arguments are the selected subject's name
\* and that standard.
C25_StartOnlyResolved ==
  [][started' # started =>
       /\ apiStatus = "key_valid"
       /\ \E item \in allStandards :
            /\ item.curriculumName = selectedCurriculumName
            /\ item.subjectName = selectedSubjectName
            /\ item.grade = selectedGrade
            /\ item.unitName = selectedUnitName
            /\ item.standard.id = selectedStandardId
            /\ started' = Append(started, [subjectName |-> selectedSubjectName,
                                            standard |-> item.standard])]_vars

\* Study was started with the standard of the second curriculum, which
\* shares its id with a standard of the first.
C25_Witness ==
  \E j \in DOMAIN started :
    started[j] = [subjectName |-> "S", standard |-> Std(<<"1">>, <<"o">>)]

====
